---- MODULE Spec2Model ----
(***************************************************************************)
(* A model of herbie/fast.py: FastHerbie.__init__ (the fan-out / fan-in    *)
(* construction of many Herbie objects on a ThreadPoolExecutor), df(),     *)
(* inventory(), download(), xarray() and Herbie_latest.                    *)
(*                                                                         *)
(* Dates are small integers (a larger integer is a later run time), a date *)
(* string is the sequence of its decimal digits, forecast lead times are   *)
(* integers.  A Python argument is a record [kind, val]: kind is the       *)
(* Python type, val the elements (a scalar holds its one value).           *)
(***************************************************************************)
EXTENDS Integers, Sequences, FiniteSets

\* ---------------------------------------------------------------- bounds
MaxDates == 2
MaxLeads == 2
MaxTasks == 4
MaxThreads == 2
StrLen == 2
MaxN == 2

\* max_threads: int = 50
DefaultMaxThreads == 50

DateVals == {1, 2}
LeadVals == {0, 6}

\* ------------------------------------------------------- Python helpers
Min(a, b) == IF a <= b THEN a ELSE b

Range(s) == {s[i] : i \in 1..Len(s)}

SeqsUpTo(S, n) == UNION {[1..k -> S] : k \in 0..n}

RECURSIVE Pow10(_)
Pow10(n) == IF n = 0 THEN 1 ELSE 10 * Pow10(n - 1)

\* str(date): the date written as StrLen decimal digits.
DateStr(d) == [i \in 1..StrLen |-> (d \div Pow10(StrLen - i)) % 10]

\* pd.to_datetime on a string: the digits read back as a date.
RECURSIVE ParseDate(_)
ParseDate(s) ==
    IF Len(s) = 0 THEN 0
    ELSE 10 * ParseDate(SubSeq(s, 1, Len(s) - 1)) + s[Len(s)]

\* range(n)
RangeSeq(n) == [i \in 1..n |-> i - 1]

\* hasattr(x, "__len__")
HasLen(x) == x.kind \in {"list", "tuple", "str", "range", "DatetimeIndex"}

\* len(x), for an x that has a length
PyLen(x) == Len(x.val)

\* pd.to_datetime of one element met when iterating over x: a character of
\* a string is parsed, a timestamp is returned as it is.
ElemDate(x, i) == IF x.kind = "str" THEN ParseDate(<<x.val[i]>>) ELSE x.val[i]

\* list.sort(key=...), key[i] being the key of s[i]: ascending and stable.
StableSort(s, key) ==
    LET pos(i) == 1 + Cardinality({j \in 1..Len(s) :
                        \/ key[j] < key[i]
                        \/ (key[j] = key[i] /\ j < i)})
    IN  [p \in 1..Len(s) |-> s[CHOOSE i \in 1..Len(s) : pos(i) = p]]

\* ------------------------------------------------------------ arguments
DateArgs ==
    {[kind |-> "list", val |-> v] : v \in SeqsUpTo(DateVals, MaxDates)}
    \cup {[kind |-> "str", val |-> DateStr(d)] : d \in DateVals}
    \cup {[kind |-> "Timestamp", val |-> <<d>>] : d \in DateVals}
    \cup {[kind |-> "tuple", val |-> <<d>>] : d \in DateVals}

FxxArgs ==
    {[kind |-> "list", val |-> v] : v \in SeqsUpTo(LeadVals, MaxLeads)}
    \cup {[kind |-> "int", val |-> <<f>>] : f \in LeadVals}
    \cup {[kind |-> "range", val |-> RangeSeq(n)] : n \in 1..MaxLeads}
    \cup {[kind |-> "str", val |-> <<0>>], [kind |-> "float", val |-> <<0>>]}

\* ------------------------------------------------------------ validators
\* _validate_DATES: the validated list, or the ValueError it raises.
validate_DATES(D) ==
    LET wrapped == IF D.kind = "str"
                       THEN [kind |-> "list", val |-> <<ParseDate(D.val)>>]
                   ELSE IF ~HasLen(D)
                       THEN [kind |-> "list", val |-> D.val]
                   ELSE D
    IN  IF wrapped.kind \in {"list", "DatetimeIndex"}
            THEN [ok |-> TRUE, val |-> wrapped]
        ELSE [ok |-> FALSE, val |-> wrapped]

\* As validate_fxx, without the isinstance test of line 40.
validate_fxx_Unchecked(f) == [ok |-> TRUE, val |-> f]

\* _validate_fxx: the validated list-like, or the ValueError it raises.
validate_fxx(f) ==
    LET wrapped == IF f.kind = "int" THEN [kind |-> "list", val |-> f.val]
                   ELSE f
    IN  IF wrapped.kind \in {"list", "range"}
            THEN [ok |-> TRUE, val |-> wrapped]
        ELSE [ok |-> FALSE, val |-> wrapped]

\* ----------------------------------------------------------------- state
VARIABLES
    DATES,            \* the DATES argument of FastHerbie(...)
    fxx,              \* the fxx argument
    max_threads,      \* the max_threads argument
    self_DATES,       \* self.DATES
    self_fxx,         \* self.fxx
    tasks,            \* self.tasks
    threads,          \* the pool's worker ceiling
    futures,          \* the futures submitted, in submission order
    collected,        \* the futures as_completed has yielded
    objects,          \* self.objects
    file_exists,      \* self.file_exists
    file_not_exists,  \* self.file_not_exists
    pc,               \* where __init__ is
    err,              \* the exception __init__ raised, if any
    dfOut,            \* what the last df() call gave
    dl_threads,       \* download(): the pool's worker ceiling
    dlFutures,        \* download(): the futures submitted
    dlCollected,      \* download(): the futures as_completed has yielded
    outFiles,         \* download(): outFiles
    dlpc,             \* where download() is
    dl_max,           \* download(): the max_threads argument
    invOut,           \* what the last inventory() call gave
    xr_max,           \* xarray(): the max_threads argument (0: None)
    xrFutures,        \* xarray(): the futures submitted
    xrCollected,      \* xarray(): the futures as_completed has yielded
    ds_list,          \* xarray(): ds_list
    xrOut,            \* what the last xarray() call gave
    xrpc,             \* where xarray() is
    latest            \* the Herbie_latest call, if construction is its

batch == <<DATES, fxx, max_threads, self_DATES, self_fxx, tasks, threads,
           futures, collected, objects, file_exists, file_not_exists, pc, err>>

dlvars == <<dl_threads, dlFutures, dlCollected, outFiles, dlpc, dl_max>>

xrvars == <<xr_max, xrFutures, xrCollected, ds_list, xrOut, xrpc>>

\* What the calls made on the batch hold.
calls == <<dfOut, invOut, dlvars, xrvars>>

vars == <<batch, calls, latest>>

NoArg == [kind |-> "unset", val |-> <<>>]

\* No df() call made yet.
NoFrame == [status |-> "none", rows |-> <<>>, index |-> <<>>, columns |-> <<>>]

\* No inventory() call made yet.
NoInventory == [status |-> "none", rows |-> <<>>]

\* No xarray() call made yet.
NoCubes == [status |-> "none", cubes |-> <<>>]

\* Construction was not called by Herbie_latest.
NoLatest == [status |-> "none", n |-> 0, freq |-> 0, now |-> 0, H |-> <<>>]

\* No call is running on the batch and none has left anything.
NoCalls ==
    /\ dfOut = NoFrame
    /\ invOut = NoInventory
    /\ dl_threads = 0
    /\ dlFutures = <<>>
    /\ dlCollected = {}
    /\ outFiles = <<>>
    /\ dlpc = "idle"
    /\ dl_max = 0
    /\ xr_max = 0
    /\ xrFutures = <<>>
    /\ xrCollected = {}
    /\ ds_list = <<>>
    /\ xrOut = NoCubes
    /\ xrpc = "idle"

Init ==
    /\ DATES \in DateArgs
    /\ fxx \in FxxArgs
    /\ Len(DATES.val) * Len(fxx.val) <= MaxTasks
    /\ max_threads \in 1..MaxThreads
    /\ self_DATES = NoArg
    /\ self_fxx = NoArg
    /\ tasks = 0
    /\ threads = 0
    /\ futures = <<>>
    /\ collected = {}
    /\ objects = <<>>
    /\ file_exists = <<>>
    /\ file_not_exists = <<>>
    /\ pc = "validate"
    /\ err = "none"
    /\ NoCalls
    /\ latest = NoLatest

\* ------------------------------------------------------------- __init__
Raise(e) ==
    /\ pc' = "raised"
    /\ err' = e

\* lines 127-128: self.DATES = _validate_DATES(DATES); self.fxx = _validate_fxx(fxx)
Validate ==
    /\ pc = "validate"
    /\ LET d == validate_DATES(DATES)
           f == validate_fxx(fxx)
       IN  IF ~d.ok
               THEN /\ Raise("ValueError_DATES")
                    /\ UNCHANGED <<self_DATES, self_fxx>>
           ELSE IF ~f.ok
               THEN /\ Raise("ValueError_fxx")
                    /\ self_DATES' = d.val
                    /\ UNCHANGED self_fxx
           ELSE /\ self_DATES' = d.val
                /\ self_fxx' = f.val
                /\ pc' = "count"
                /\ UNCHANGED err
    /\ UNCHANGED <<DATES, fxx, max_threads, tasks, threads, futures,
                   collected, objects, file_exists, file_not_exists>>
    /\ UNCHANGED <<calls, latest>>

\* lines 134-139: self.tasks = len(DATES) * len(fxx); threads = min(...);
\* self.objects = []; ThreadPoolExecutor(threads)
CountTasks ==
    /\ pc = "count"
    /\ IF ~HasLen(DATES) \/ ~HasLen(fxx)
           THEN /\ Raise("TypeError_len")
                /\ UNCHANGED <<tasks, threads>>
       ELSE LET n == PyLen(DATES) * PyLen(fxx)
                t == Min(n, max_threads)
            IN  /\ tasks' = n
                /\ threads' = t
                /\ IF t <= 0
                       THEN Raise("ValueError_max_workers")
                   ELSE /\ pc' = "submit"
                        /\ UNCHANGED err
    /\ objects' = <<>>
    /\ UNCHANGED <<DATES, fxx, max_threads, self_DATES, self_fxx, futures,
                   collected, file_exists, file_not_exists>>
    /\ UNCHANGED <<calls, latest>>

\* The k-th (date, lead) pair of "for DATE in DATES for f in fxx".
TaskDate(k) == ElemDate(DATES, ((k - 1) \div PyLen(fxx)) + 1)
TaskFxx(k) == fxx.val[((k - 1) % PyLen(fxx)) + 1]
NPairs == PyLen(DATES) * PyLen(fxx)

\* lines 140-144: exe.submit(Herbie, date=DATE, fxx=f, **kwargs), one pair
\* at a time; the workers run while the rest is being submitted.
Submit ==
    /\ pc = "submit"
    /\ LET k == Len(futures) + 1
       IN  /\ futures' = Append(futures, [date |-> TaskDate(k), fxx |-> TaskFxx(k),
                                           state |-> "pending", outcome |-> "none"])
           /\ pc' = IF k = NPairs THEN "collect" ELSE "submit"
    /\ UNCHANGED <<DATES, fxx, max_threads, self_DATES, self_fxx, tasks, threads,
                   collected, objects, file_exists, file_not_exists, err>>
    /\ UNCHANGED <<calls, latest>>

Running(futs) == {i \in 1..Len(futs) : futs[i].state = "running"}
Pending(futs) == {i \in 1..Len(futs) : futs[i].state = "pending"}

\* The pool's work queue is first in, first out.
NextPending(futs) == CHOOSE i \in Pending(futs) : \A j \in Pending(futs) : i <= j

\* As CanStart, for a pool whose workers take one work item each and are
\* not used again.
CanStart_NoReuse(futs, ceiling) ==
    /\ Pending(futs) # {}
    /\ Cardinality({i \in 1..Len(futs) : futs[i].state # "pending"}) < ceiling

\* As CanStart, for a pool that starts a thread per work item.
CanStart_NoCeiling(futs, ceiling) == Pending(futs) # {}

\* A free worker of the pool takes the next work item.
CanStart(futs, ceiling) ==
    /\ Pending(futs) # {}
    /\ Cardinality(Running(futs)) < ceiling

Start ==
    /\ pc \in {"submit", "collect"}
    /\ CanStart(futures, threads)
    /\ futures' = [futures EXCEPT ![NextPending(futures)].state = "running"]
    /\ UNCHANGED <<DATES, fxx, max_threads, self_DATES, self_fxx, tasks, threads,
                   collected, objects, file_exists, file_not_exists, pc, err>>
    /\ UNCHANGED <<calls, latest>>

\* Herbie(date=DATE, fxx=f) returns with a GRIB file found, returns with
\* none found, or raises.
Outcomes == {"present", "absent", "failed"}

Finish ==
    /\ pc \in {"submit", "collect"}
    /\ \E i \in Running(futures), o \in Outcomes :
           futures' = [futures EXCEPT ![i].state = "done", ![i].outcome = o]
    /\ UNCHANGED <<DATES, fxx, max_threads, self_DATES, self_fxx, tasks, threads,
                   collected, objects, file_exists, file_not_exists, pc, err>>
    /\ UNCHANGED <<calls, latest>>

\* The Herbie object future i returns.
Item(futs, i) ==
    [id |-> i, date |-> futs[i].date, fxx |-> futs[i].fxx,
     grib |-> IF futs[i].outcome = "present" THEN "found" ELSE "None"]

\* As Collected, without the test of future.exception(): a future that
\* raised is appended like one that returned.
Collected_Unchecked(objs, futs, i) == Append(objs, Item(futs, i))

\* lines 148-151: the body of the as_completed loop for one future.
Collected(objs, futs, i) ==
    IF futs[i].outcome # "failed" THEN Append(objs, Item(futs, i)) ELSE objs

\* As AllCollected, with a loop that stops at the first future that raised.
AllCollected_StopAtFailure(c, futs) ==
    \/ c = 1..Len(futs)
    \/ \E i \in c : futs[i].outcome = "failed"

\* line 147: as_completed(futures) is exhausted once it has yielded every
\* future, whatever the futures' outcomes.
AllCollected(c, futs) == c = 1..Len(futs)

\* lines 147-151: as_completed yields a finished future not yet yielded.
Collect ==
    /\ pc = "collect"
    /\ \E i \in 1..Len(futures) :
           /\ i \notin collected
           /\ futures[i].state = "done"
           /\ objects' = Collected(objects, futures, i)
           /\ collected' = collected \cup {i}
    /\ UNCHANGED <<DATES, fxx, max_threads, self_DATES, self_fxx, tasks, threads,
                   futures, file_exists, file_not_exists, pc, err>>
    /\ UNCHANGED <<calls, latest>>

\* line 156: self.objects.sort(key=lambda H: H.fxx)
SortByFxx(objs) == StableSort(objs, [i \in 1..Len(objs) |-> objs[i].fxx])

\* line 157: self.objects.sort(key=lambda H: H.date)
SortByDate(objs) == StableSort(objs, [i \in 1..Len(objs) |-> objs[i].date])

\* As SortObjects, without the sort by lead time of line 156.
SortObjects_DateOnly(objs) == SortByDate(objs)

\* lines 156-157: sort by lead time, then by date.
SortObjects(objs) == SortByDate(SortByFxx(objs))

HasGrib(H) == H.grib # "None"
NoGrib(H) == H.grib = "None"

\* As NotExisting, with the test of H.grib left out.
NotExisting_Unfiltered(objs) == objs

\* lines 162-163
Existing(objs) == SelectSeq(objs, HasGrib)
NotExisting(objs) == SelectSeq(objs, NoGrib)

\* lines 153-168: the loop is over and the pool shut down; sort, partition.
SortAndPartition ==
    /\ pc = "collect"
    /\ AllCollected(collected, futures)
    /\ objects' = SortObjects(objects)
    /\ file_exists' = Existing(SortObjects(objects))
    /\ file_not_exists' = NotExisting(SortObjects(objects))
    /\ pc' = "returned"
    /\ UNCHANGED <<DATES, fxx, max_threads, self_DATES, self_fxx, tasks, threads,
                   futures, collected, err>>
    /\ UNCHANGED <<calls, latest>>

\* ------------------------------------------------------------------ df()
\* objs[x : x + n] for x in range(0, len(objs), n)
Chunks(objs, n) ==
    [r \in 1..((Len(objs) + n - 1) \div n) |->
        SubSeq(objs, (r - 1) * n + 1, Min(r * n, Len(objs)))]

\* The cell pandas fills in where a row is shorter than the widest one.
NoneCell == [id |-> 0, date |-> 0 - 1, fxx |-> 0 - 1, grib |-> "None"]

Width(data) ==
    IF Len(data) = 0 THEN 0
    ELSE CHOOSE w \in {Len(data[r]) : r \in 1..Len(data)} :
             \A r \in 1..Len(data) : Len(data[r]) <= w

\* pd.DataFrame(data, index=index, columns=columns) of a list of rows: an
\* empty list gives a frame of missing cells, short rows are padded, and a
\* shape other than len(index) x len(columns) is a ValueError.
DataFrame(data, index, columns) ==
    IF Len(data) = 0
        THEN [status |-> "ok",
              rows |-> [r \in 1..Len(index) |-> [c \in 1..Len(columns) |-> NoneCell]],
              index |-> index, columns |-> columns]
    ELSE IF Len(data) # Len(index) \/ Width(data) # Len(columns)
        THEN [status |-> "ValueError", rows |-> <<>>, index |-> index, columns |-> columns]
    ELSE [status |-> "ok",
          rows |-> [r \in 1..Len(data) |-> [c \in 1..Width(data) |->
                       IF c <= Len(data[r]) THEN data[r][c] ELSE NoneCell]],
          index |-> index, columns |-> columns]

\* lines 179-185
df(objs, dates, leads) == DataFrame(Chunks(objs, Len(leads)), dates, leads)

\* The methods of a batch are called one after the other.
NoCallRunning ==
    /\ dlpc \in {"idle", "returned"}
    /\ xrpc \in {"idle", "returned", "raised"}

\* What the batch holds apart from its three lists.
batchRest == <<DATES, fxx, max_threads, self_DATES, self_fxx, tasks, threads,
               futures, collected, pc, err>>

\* The locals and the result of an earlier call are gone when the next
\* call is made.
ClearDf == dfOut' = NoFrame
ClearInventory == invOut' = NoInventory
ClearDownload ==
    /\ dl_threads' = 0
    /\ dlFutures' = <<>>
    /\ dlCollected' = {}
    /\ outFiles' = <<>>
    /\ dlpc' = "idle"
    /\ dl_max' = 0
ClearXarray ==
    /\ xr_max' = 0
    /\ xrFutures' = <<>>
    /\ xrCollected' = {}
    /\ ds_list' = <<>>
    /\ xrOut' = NoCubes
    /\ xrpc' = "idle"

\* As ReadOnly, for a loop that takes the items off the list it walks.
ReadOnly_Consuming(list) == IF Len(list) = 0 THEN list ELSE Tail(list)

\* What slicing a list (line 180) or iterating over it (line 195) leaves
\* of it: the list as it was.
ReadOnly(list) == list

Df ==
    /\ pc = "returned"
    /\ NoCallRunning
    /\ dfOut' = df(objects, self_DATES.val, self_fxx.val)
    /\ objects' = ReadOnly(objects)
    /\ ClearInventory
    /\ ClearDownload
    /\ ClearXarray
    /\ UNCHANGED <<batchRest, file_exists, file_not_exists, latest>>

\* ------------------------------------------------------------ inventory()
\* lines 194-199: one row per item of file_exists, tagged with the item's
\* file. i.inventory(search) may raise, and pd.concat of no frame is a
\* ValueError.
inventory(exists, raised) ==
    IF raised THEN [status |-> "raised", rows |-> <<>>]
    ELSE IF Len(exists) = 0 THEN [status |-> "ValueError", rows |-> <<>>]
    ELSE [status |-> "ok", rows |-> [k \in 1..Len(exists) |-> [FILE |-> exists[k]]]]

Inventory ==
    /\ pc = "returned"
    /\ NoCallRunning
    /\ \E raised \in {b \in BOOLEAN : b => Len(file_exists) > 0} :
           invOut' = inventory(file_exists, raised)
    /\ file_exists' = ReadOnly(file_exists)
    /\ ClearDf
    /\ ClearDownload
    /\ ClearXarray
    /\ UNCHANGED <<batchRest, objects, file_not_exists, latest>>

\* ------------------------------------------------------------ download()
\* lines 227-231: threads = min(self.tasks, max_threads); outFiles = [];
\* ThreadPoolExecutor(threads)
DownloadCall ==
    /\ pc = "returned"
    /\ NoCallRunning
    /\ \E m \in 1..MaxThreads :
           /\ dl_max' = m
           /\ dl_threads' = Min(tasks, m)
           /\ dlpc' = IF Min(tasks, m) <= 0 THEN "raised"
                      ELSE IF Len(file_exists) = 0 THEN "collect"
                      ELSE "submit"
    /\ dlFutures' = <<>>
    /\ dlCollected' = {}
    /\ outFiles' = <<>>
    /\ ClearDf
    /\ ClearInventory
    /\ ClearXarray
    /\ UNCHANGED <<batch, latest>>

\* lines 232-235: exe.submit(H.download, ...) for H in self.file_exists
DlSubmit ==
    /\ dlpc = "submit"
    /\ LET k == Len(dlFutures) + 1
       IN  /\ dlFutures' = Append(dlFutures, [H |-> file_exists[k],
                                               state |-> "pending", outcome |-> "none"])
           /\ dlpc' = IF k = Len(file_exists) THEN "collect" ELSE "submit"
    /\ UNCHANGED <<batch, dfOut, invOut, xrvars, latest, dl_max, dl_threads, dlCollected, outFiles>>

DlStart ==
    /\ dlpc \in {"submit", "collect"}
    /\ CanStart(dlFutures, dl_threads)
    /\ dlFutures' = [dlFutures EXCEPT ![NextPending(dlFutures)].state = "running"]
    /\ UNCHANGED <<batch, dfOut, invOut, xrvars, latest, dl_max, dl_threads, dlCollected, outFiles, dlpc>>

\* H.download(search) returns a path or raises.
DlOutcomes == {"path", "failed"}

DlFinish ==
    /\ dlpc \in {"submit", "collect"}
    /\ \E i \in Running(dlFutures), o \in DlOutcomes :
           dlFutures' = [dlFutures EXCEPT ![i].state = "done", ![i].outcome = o]
    /\ UNCHANGED <<batch, dfOut, invOut, xrvars, latest, dl_max, dl_threads, dlCollected, outFiles, dlpc>>

\* The path H.download returns: the local copy of H's file.
PathOf(H) == [local |-> H.id]

\* As DlCollected, without the test of future.exception().
DlCollected_Unchecked(files, futs, i) == Append(files, PathOf(futs[i].H))

\* lines 239-242: the body of the as_completed loop for one future.
DlCollected(files, futs, i) ==
    IF futs[i].outcome # "failed" THEN Append(files, PathOf(futs[i].H)) ELSE files

\* lines 238-242
DlCollect ==
    /\ dlpc = "collect"
    /\ \E i \in 1..Len(dlFutures) :
           /\ i \notin dlCollected
           /\ dlFutures[i].state = "done"
           /\ outFiles' = DlCollected(outFiles, dlFutures, i)
           /\ dlCollected' = dlCollected \cup {i}
    /\ UNCHANGED <<batch, dfOut, invOut, xrvars, latest, dl_max, dl_threads, dlFutures, dlpc>>

\* line 244: return outFiles
DlReturn ==
    /\ dlpc = "collect"
    /\ AllCollected(dlCollected, dlFutures)
    /\ dlpc' = "returned"
    /\ UNCHANGED <<batch, dfOut, invOut, xrvars, latest, dl_max, dl_threads, dlFutures, dlCollected, outFiles>>

\* -------------------------------------------------------------- xarray()
\* The hypercube keys (type of level, "_", level value) an opened file can
\* hold.
Key1 == "heightAboveGround_2"
Key2 == "surface_0"

\* H.xarray(**xarray_kwargs) raises, returns one Dataset, or returns a list
\* of Datasets, one per hypercube.
XrOutcomes == {"failed", "Dataset", "list"}

\* A Dataset opened from item H: its run time, its lead time and the key of
\* lines 305-307 and 313-315.
Dataset(H, key) == [time |-> H.date, step |-> H.fxx, key |-> key, src |-> H.id]

\* lines 281-286: if max_threads: threads = min(self.tasks, max_threads);
\* a max_threads of None or 0 is the sequential branch of line 295.
XarrayCall ==
    /\ pc = "returned"
    /\ NoCallRunning
    /\ \E m \in 0..MaxThreads :
           /\ xr_max' = m
           /\ xrpc' = IF Len(file_exists) = 0 THEN "merge"
                      ELSE IF m = 0 THEN "sequential"
                      ELSE "submit"
    /\ xrFutures' = <<>>
    /\ xrCollected' = {}
    /\ ds_list' = <<>>
    /\ xrOut' = NoCubes
    /\ ClearDf
    /\ ClearInventory
    /\ ClearDownload
    /\ UNCHANGED <<batch, latest>>

\* line 295: ds_list = [H.xarray(**xarray_kwargs) for H in self.file_exists];
\* an H.xarray that raises ends the call.
XrSeqOpen ==
    /\ xrpc = "sequential"
    /\ LET k == Len(ds_list) + 1
       IN  \E o \in XrOutcomes :
               IF o = "failed"
                   THEN /\ xrpc' = "raised"
                        /\ xrOut' = [status |-> "raised", cubes |-> <<>>]
                        /\ ds_list' = <<>>
               ELSE /\ ds_list' = Append(ds_list, [H |-> file_exists[k], out |-> o])
                    /\ xrpc' = IF k = Len(file_exists) THEN "merge" ELSE "sequential"
                    /\ UNCHANGED xrOut
    /\ UNCHANGED <<batch, dfOut, invOut, dlvars, latest, xr_max, xrFutures, xrCollected>>

\* lines 288-291: ThreadPoolExecutor(max_threads); exe.submit(H.xarray, ...)
\* for H in self.file_exists
XrSubmit ==
    /\ xrpc = "submit"
    /\ LET k == Len(xrFutures) + 1
       IN  /\ xrFutures' = Append(xrFutures,
                              [H |-> file_exists[k], state |-> "pending", outcome |-> "none"])
           /\ xrpc' = IF k = Len(file_exists) THEN "gather" ELSE "submit"
    /\ UNCHANGED <<batch, dfOut, invOut, dlvars, latest, xr_max, xrCollected, ds_list, xrOut>>

\* A worker of the pool of line 288, which has max_threads workers, takes
\* the next open call.
XrStart ==
    /\ xrpc \in {"submit", "gather", "unwind"}
    /\ CanStart(xrFutures, xr_max)
    /\ xrFutures' = [xrFutures EXCEPT ![NextPending(xrFutures)].state = "running"]
    /\ UNCHANGED <<batch, dfOut, invOut, dlvars, latest, xr_max, xrCollected, ds_list, xrOut, xrpc>>

XrFinish ==
    /\ xrpc \in {"submit", "gather", "unwind"}
    /\ \E i \in Running(xrFutures), o \in XrOutcomes :
           xrFutures' = [xrFutures EXCEPT ![i].state = "done", ![i].outcome = o]
    /\ UNCHANGED <<batch, dfOut, invOut, dlvars, latest, xr_max, xrCollected, ds_list, xrOut, xrpc>>

\* line 293: future.result() returns what the call returned and raises
\* what the call raised.
XrResult(futs, i) ==
    IF futs[i].outcome = "failed" THEN "raised" ELSE "appended"

\* line 293: ds_list = [future.result() for future in as_completed(futures)]
XrCollect ==
    /\ xrpc = "gather"
    /\ \E i \in 1..Len(xrFutures) :
           /\ i \notin xrCollected
           /\ xrFutures[i].state = "done"
           /\ xrCollected' = xrCollected \cup {i}
           /\ ds_list' = IF XrResult(xrFutures, i) = "appended"
                              THEN Append(ds_list, [H |-> xrFutures[i].H,
                                                    out |-> xrFutures[i].outcome])
                          ELSE <<>>
           /\ xrpc' = IF XrResult(xrFutures, i) = "raised" THEN "unwind"
                      ELSE IF xrCollected' = 1..Len(xrFutures) THEN "merge"
                      ELSE "gather"
    /\ UNCHANGED <<batch, dfOut, invOut, dlvars, latest, xr_max, xrFutures, xrOut>>

\* line 288: leaving the with block on the exception waits for the open
\* calls still queued or running, then the exception leaves xarray().
XrUnwind ==
    /\ xrpc = "unwind"
    /\ \A i \in 1..Len(xrFutures) : xrFutures[i].state = "done"
    /\ xrpc' = "raised"
    /\ xrOut' = [status |-> "raised", cubes |-> <<>>]
    /\ UNCHANGED <<batch, dfOut, invOut, dlvars, latest, xr_max, xrFutures, xrCollected, ds_list>>

\* lines 299-318: the Datasets of one element of ds_list
Datasets(e) ==
    IF e.out = "list" THEN <<Dataset(e.H, Key1), Dataset(e.H, Key2)>>
    ELSE <<Dataset(e.H, Key1)>>

RECURSIVE Flatten(_)
\* lines 299-318: the Datasets in the order the loop meets them
Flatten(dl) ==
    IF Len(dl) = 0 THEN <<>> ELSE Datasets(Head(dl)) \o Flatten(Tail(dl))

RECURSIVE FirstSeen(_)
\* lines 308-309, 316-317: the keys of the dict hypercubes, in insertion
\* order
FirstSeen(flat) ==
    IF Len(flat) = 0 THEN <<>>
    ELSE LET rest == FirstSeen(SubSeq(flat, 1, Len(flat) - 1))
             k == flat[Len(flat)].key
         IN  IF k \in Range(rest) THEN rest ELSE Append(rest, k)

\* lines 310, 318: hypercubes[key], in the order appended
Group(flat, key) ==
    LET OfKey(d) == d.key = key
    IN  SelectSeq(flat, OfKey)

SortByStep(g) == StableSort(g, [i \in 1..Len(g) |-> g[i].step])
SortByTime(g) == StableSort(g, [i \in 1..Len(g) |-> g[i].time])

\* lines 324-330: sort by step, then by time, then cut into pieces of
\* len(self.fxx)
Grid(g, n) == Chunks(SortByTime(SortByStep(g)), n)

\* lines 298-330: the nested lists handed to combine_nested, by key
Hypercubes(dl, n) ==
    LET flat == Flatten(dl)
        keys == FirstSeen(flat)
    IN  [c \in 1..Len(keys) |->
            [key |-> keys[c], grid |-> Grid(Group(flat, keys[c]), n)]]

\* xr.combine_nested wants sub-lists of one length; it raises ValueError
\* otherwise, with and without combine_attrs (lines 332-339).
Rectangular(grid) == \A r \in 1..Len(grid) : Len(grid[r]) = Len(grid[1])

\* lines 322-342
combine(cubes) ==
    IF \A c \in 1..Len(cubes) : Rectangular(cubes[c].grid)
        THEN [status |-> "ok", cubes |-> cubes]
    ELSE [status |-> "ValueError", cubes |-> <<>>]

\* lines 298-342: group, sort, reshape, combine, return
XrMerge ==
    /\ xrpc = "merge"
    /\ xrOut' = combine(Hypercubes(ds_list, PyLen(self_fxx)))
    /\ xrpc' = IF xrOut'.status = "ok" THEN "returned" ELSE "raised"
    /\ UNCHANGED <<batch, dfOut, invOut, dlvars, latest, xr_max, xrFutures, xrCollected, ds_list>>

Xarray ==
    \/ XarrayCall
    \/ XrSeqOpen
    \/ XrSubmit
    \/ XrStart
    \/ XrFinish
    \/ XrCollect
    \/ XrUnwind
    \/ XrMerge

Construct ==
    \/ Validate
    \/ CountTasks
    \/ Submit
    \/ Start
    \/ Finish
    \/ Collect
    \/ SortAndPartition

Download ==
    \/ DownloadCall
    \/ DlSubmit
    \/ DlStart
    \/ DlFinish
    \/ DlCollect
    \/ DlReturn

Next == Construct \/ Df

Spec == Init /\ [][Next]_vars

NextDownload == Construct \/ Download

SpecDownload == Init /\ [][NextDownload]_vars

\* No element of s occurs twice.
Distinct(s) == \A i, j \in 1..Len(s) : s[i] = s[j] => i = j

\* FastHerbie(DATES, fxx=fxx, max_threads=max_threads) called with a list of
\* different dates and a list of different leads, then any of its methods,
\* one call after the other.
InitLists ==
    /\ Init
    /\ DATES.kind = "list"
    /\ fxx.kind = "list"
    /\ Distinct(DATES.val)
    /\ Distinct(fxx.val)

NextOps == Construct \/ Df \/ Inventory \/ Download \/ Xarray

SpecOps == InitLists /\ [][NextOps]_vars

\* s is in ascending order.
Ascending(s) == \A i, j \in 1..Len(s) : i < j => s[i] < s[j]

\* FastHerbie called with the dates and the leads in ascending order, as
\* pd.date_range and range give them.
InitAscending ==
    /\ InitLists
    /\ Ascending(DATES.val)
    /\ Ascending(fxx.val)

\* The steps of a download() call that has been made.
DownloadRun == DlSubmit \/ DlStart \/ DlFinish \/ DlCollect \/ DlReturn

\* The orchestrator and the workers of the pools are scheduled and every
\* task terminates: a step of construction, or of a download() call under
\* way, that can be taken is taken in the end. The caller is free never to
\* call download().
SpecLive ==
    /\ InitAscending
    /\ [][NextDownload]_vars
    /\ WF_vars(Construct)
    /\ WF_vars(DownloadRun)

\* --------------------------------------------------------- Herbie_latest
Nows == {7, 8}
Freqs == {1, 2}

\* Timestamp.floor(freq)
Floor(t, freq) == t - (t % freq)

\* pd.date_range(start, end, freq): start, start + freq, ... up to end, both
\* ends included.
DateRange(start, end, freq) ==
    [k \in 1..(((end - start) \div freq) + 1) |-> start + (k - 1) * freq]

\* lines 79-84: the dates Herbie_latest probes.
LatestDates(n, freq, now) ==
    DateRange(Floor(now, freq) - freq * n, Floor(now, freq), freq)

\* Herbie_latest(n, freq, **kwargs) is called.
InitLatest ==
    /\ DATES = NoArg
    /\ fxx = NoArg
    /\ max_threads \in (1..MaxThreads) \cup {DefaultMaxThreads}
    /\ self_DATES = NoArg
    /\ self_fxx = NoArg
    /\ tasks = 0
    /\ threads = 0
    /\ futures = <<>>
    /\ collected = {}
    /\ objects = <<>>
    /\ file_exists = <<>>
    /\ file_not_exists = <<>>
    /\ pc = "Herbie_latest"
    /\ err = "none"
    /\ NoCalls
    /\ latest \in {[status |-> "called", n |-> n, freq |-> f, now |-> t, H |-> <<>>] :
                      n \in 1..MaxN, f \in Freqs, t \in Nows}

\* lines 79-85: FastHerbie(DATES, **kwargs), fxx left to its default [0]
HerbieLatestCall ==
    /\ pc = "Herbie_latest"
    /\ DATES' = [kind |-> "DatetimeIndex",
                 val |-> LatestDates(latest.n, latest.freq, latest.now)]
    /\ fxx' = [kind |-> "list", val |-> <<0>>]
    /\ latest' = [latest EXCEPT !.status = "running"]
    /\ pc' = "validate"
    /\ UNCHANGED <<max_threads, self_DATES, self_fxx, tasks, threads, futures,
                   collected, objects, file_exists, file_not_exists, err, calls>>

\* As LatestPick, taking the first item.
LatestPick_First(exists) == exists[1]

\* line 86: FH.file_exists[-1]
LatestPick(exists) == exists[Len(exists)]

\* line 86: return FH.file_exists[-1], an IndexError on an empty list
HerbieLatestReturn ==
    /\ pc = "returned"
    /\ latest.status = "running"
    /\ latest' = IF Len(file_exists) = 0
                     THEN [latest EXCEPT !.status = "IndexError"]
                 ELSE [latest EXCEPT !.status = "ok", !.H = <<LatestPick(file_exists)>>]
    /\ UNCHANGED <<batch, calls>>

NextLatest == HerbieLatestCall \/ Construct \/ HerbieLatestReturn

SpecLatest == InitLatest /\ [][NextLatest]_vars
\* ================================================================ claims
D == Len(DATES.val)
L == Len(fxx.val)

\* Both arguments are non-empty lists (a range is a list of leads).
ListArgs ==
    /\ DATES.kind = "list"
    /\ fxx.kind \in {"list", "range"}
    /\ D > 0
    /\ L > 0

Failed == {i \in 1..Len(futures) : futures[i].outcome = "failed"}
Present == {i \in 1..Len(futures) : futures[i].outcome = "present"}
Absent == {i \in 1..Len(futures) : futures[i].outcome = "absent"}

\* How many items of objs future i has contributed.
Copies(objs, i) == Cardinality({k \in 1..Len(objs) : objs[k].id = i})

\* C1: for non-empty lists of D dates and L leads, construction never
\* raises, and once it has returned exactly D*L tasks were submitted, the
\* task of date i and lead j being number (i-1)*L+j, and the sizes of
\* file_exists and file_not_exists and the number of tasks that raised add
\* up to D*L.
C1_CrossProduct ==
    ListArgs =>
        /\ pc # "raised"
        /\ Len(futures) <= D * L
        /\ pc \in {"collect", "returned"} =>
               /\ Len(futures) = D * L
               /\ tasks = D * L
               /\ \A i \in 1..D, j \in 1..L :
                      /\ futures[(i - 1) * L + j].date = DATES.val[i]
                      /\ futures[(i - 1) * L + j].fxx = fxx.val[j]
        /\ pc = "returned" =>
               Len(file_exists) + Len(file_not_exists) + Cardinality(Failed) = D * L

C1_Witness ==
    /\ ListArgs
    /\ pc = "returned"
    /\ D = 2
    /\ L = 2
    /\ Cardinality(Failed) = 1
    /\ Len(file_exists) = 2
    /\ Len(file_not_exists) = 1

\* (date, lead) order: by date, and by lead among equal dates.
InOrder(s) ==
    \A i, j \in 1..Len(s) :
        i < j => \/ s[i].date < s[j].date
                 \/ (s[i].date = s[j].date /\ s[i].fxx <= s[j].fxx)

\* C2: once construction has returned, objects and file_exists are in
\* (date, lead) order, whatever the order of the arguments and whatever the
\* order in which the futures completed and were collected.
C2_Sorted ==
    pc = "returned" => InOrder(objects) /\ InOrder(file_exists)

\* The caller gave the dates in descending order, and the two tasks of each
\* date were collected in the reverse of submission order.
C2_Witness ==
    /\ pc = "returned"
    /\ DATES = [kind |-> "list", val |-> <<2, 1>>]
    /\ fxx = [kind |-> "list", val |-> <<6, 6>>]
    /\ Len(file_exists) = 4
    /\ file_exists[1].id = 4
    /\ file_exists[3].id = 2

Pair(x) == [date |-> x.date, fxx |-> x.fxx]
Pairs(s) == [k \in 1..Len(s) |-> Pair(s[k])]

\* The pairs of the tasks with outcome o, in submission order.
PairsOf(o) ==
    LET Is(f) == f.outcome = o
    IN  Pairs(SelectSeq(futures, Is))

\* Whether pair p comes before pair q in (date, lead) order.
Before(p, q) == p.date < q.date \/ (p.date = q.date /\ p.fxx < q.fxx)

\* Whether t is s put in (date, lead) order: the same pairs, as often, in
\* order.
IsOrderingOf(t, s) ==
    /\ Len(t) = Len(s)
    /\ \A k \in 1..Len(t) - 1 : ~Before(t[k + 1], t[k])
    /\ \A p \in Range(s) \cup Range(t) :
           Cardinality({k \in 1..Len(s) : s[k] = p})
               = Cardinality({k \in 1..Len(t) : t[k] = p})

\* C3: the (date, lead) sequences of file_exists and file_not_exists are a
\* function of the tasks and their outcomes alone: the present (absent)
\* tasks' pairs put in (date, lead) order, whatever the completion order.
C3_Deterministic ==
    pc = "returned" =>
        /\ IsOrderingOf(Pairs(file_exists), PairsOf("present"))
        /\ IsOrderingOf(Pairs(file_not_exists), PairsOf("absent"))

\* Two present tasks were collected in the reverse of submission order.
C3_Witness ==
    /\ pc = "returned"
    /\ DATES.val = <<2, 2>>
    /\ fxx.val = <<6, 0>>
    /\ Len(file_exists) = 2
    /\ Len(file_not_exists) = 2
    /\ file_exists[1].id > file_exists[2].id

Ids(s) == {s[k].id : k \in 1..Len(s)}

\* C4: once construction has returned, file_exists and file_not_exists
\* share no item, together they are the items of objects, an item is in
\* file_exists iff its grib is present and in file_not_exists iff it is
\* absent, a task has at most one item and a task that raised has none;
\* for one date and leads [0, 6] with lead 0 present and lead 6 absent,
\* file_exists is the lead 0 item and file_not_exists the lead 6 item.
C4_Partition ==
    pc = "returned" =>
        /\ Ids(file_exists) \cap Ids(file_not_exists) = {}
        /\ Range(file_exists) \cup Range(file_not_exists) = Range(objects)
        /\ Len(file_exists) + Len(file_not_exists) = Len(objects)
        /\ \A H \in Range(objects) :
               /\ H \in Range(file_exists) <=> H.grib # "None"
               /\ H \in Range(file_not_exists) <=> H.grib = "None"
        /\ \A i \in 1..Len(futures) :
               /\ Copies(objects, i) <= 1
               /\ i \in Failed => Copies(objects, i) = 0
        /\ (/\ DATES.kind = "list" /\ D = 1 /\ fxx = [kind |-> "list", val |-> <<0, 6>>]
            /\ futures[1].outcome = "present" /\ futures[2].outcome = "absent")
               => /\ Pairs(file_exists) = <<[date |-> DATES.val[1], fxx |-> 0]>>
                  /\ Pairs(file_not_exists) = <<[date |-> DATES.val[1], fxx |-> 6]>>

C4_Witness ==
    /\ pc = "returned"
    /\ DATES = [kind |-> "list", val |-> <<1>>]
    /\ fxx = [kind |-> "list", val |-> <<0, 6>>]
    /\ futures[1].outcome = "present"
    /\ futures[2].outcome = "absent"
    /\ Len(file_exists) = 1
    /\ Len(file_not_exists) = 1

\* C5: construction raises only before any task is submitted, never for a
\* task that raised; once it has returned every submitted task has run to
\* completion, once each, a task that raised has no item in objects and
\* every other task has exactly one.
C5_FailureIsolated ==
    /\ pc = "raised" => futures = <<>>
    /\ Len(futures) <= NPairs
    /\ pc = "returned" =>
           /\ Len(futures) = NPairs
           /\ \A i \in 1..Len(futures) :
                  /\ futures[i].state = "done"
                  /\ i \in Failed => Copies(objects, i) = 0
                  /\ i \notin Failed => Copies(objects, i) = 1

C5_Witness ==
    /\ pc = "returned"
    /\ Len(futures) = 4
    /\ Failed = {1, 3}
    /\ Ids(objects) = {2, 4}
\* Every task was submitted and every one of them raised.
AllFailed ==
    /\ Len(futures) > 0
    /\ Len(futures) = NPairs
    /\ Failed = 1..Len(futures)

\* C6, as claimed: when every submitted task raised, construction does not
\* return a batch, it ends in an error.
C6_AllFailedRaises ==
    (AllFailed /\ pc \in {"returned", "raised"}) => pc = "raised"

\* C6, amended: when every submitted task raised, construction raises
\* nothing and returns a batch whose objects, file_exists and
\* file_not_exists are empty.
C6_AllFailedReturnsEmpty ==
    AllFailed =>
        /\ pc # "raised"
        /\ err = "none"
        /\ pc = "returned" =>
               /\ objects = <<>>
               /\ file_exists = <<>>
               /\ file_not_exists = <<>>

C6_Witness ==
    /\ AllFailed
    /\ Len(futures) = 4
    /\ pc = "returned"
    /\ objects = <<>>

\* A scalar where a sequence may stand: a date string, a timestamp, an int.
ScalarArg ==
    /\ DATES.kind \in {"str", "Timestamp"} \/ fxx.kind = "int"
    /\ DATES.kind \in {"str", "Timestamp", "list"}
    /\ fxx.kind \in {"int", "list", "range"}
    /\ D > 0
    /\ L > 0

\* C7, as claimed: with a scalar date or a scalar lead, construction
\* returns and the tasks submitted are the cross product of the normalized
\* dates (self.DATES) and the normalized leads (self.fxx).
C7_ScalarCrossProduct ==
    (ScalarArg /\ pc \in {"returned", "raised"}) =>
        LET nd == Len(self_DATES.val)
            nl == Len(self_fxx.val)
        IN  /\ pc = "returned"
            /\ Len(futures) = nd * nl
            /\ \A i \in 1..nd, j \in 1..nl :
                   /\ futures[(i - 1) * nl + j].date = self_DATES.val[i]
                   /\ futures[(i - 1) * nl + j].fxx = self_fxx.val[j]

\* The ValueError of _validate_DATES and of _validate_fxx.
InvalidInput == {"ValueError_DATES", "ValueError_fxx"}

\* fxx is not an int, a list or a range, or DATES is not list-like after
\* the wrapping of a scalar.
Malformed ==
    \/ fxx.kind \notin {"int", "list", "range"}
    \/ DATES.kind \notin {"str", "Timestamp", "list", "DatetimeIndex"}

\* C8: with a malformed DATES or fxx, construction ends in the validators'
\* ValueError, and whenever it ends so no task was ever submitted to the
\* pool (no pool was made) and the arguments were malformed.
C8_InvalidInput ==
    /\ (Malformed /\ pc # "validate") =>
           /\ pc = "raised"
           /\ err \in InvalidInput
    /\ err \in InvalidInput =>
           /\ Malformed
           /\ pc = "raised"
           /\ futures = <<>>
           /\ tasks = 0
           /\ threads = 0

C8_Witness ==
    /\ pc = "raised"
    /\ err = "ValueError_fxx"
    /\ fxx.kind = "float"
    /\ DATES = [kind |-> "list", val |-> <<1, 2>>]
    /\ futures = <<>>

\* C9, as claimed: on a batch of list arguments with every task present,
\* df() gives D rows of L cells, the cell of row i and column j holding the
\* item of date DATES[i] and lead fxx[j].
C9_GridMatchesLabels ==
    (/\ ListArgs
     /\ pc = "returned"
     /\ Present = 1..Len(futures)
     /\ dfOut.status # "none") =>
        /\ dfOut.status = "ok"
        /\ Len(dfOut.rows) = D
        /\ \A i \in 1..D :
               /\ Len(dfOut.rows[i]) = L
               /\ \A j \in 1..L :
                      /\ dfOut.rows[i][j].date = DATES.val[i]
                      /\ dfOut.rows[i][j].fxx = fxx.val[j]

DlFailed == {i \in 1..Len(dlFutures) : dlFutures[i].outcome = "failed"}

\* C10: download() never raises; it submits H.download for the items of
\* file_exists only, one each; once it has returned every download has run
\* to completion, and outFiles holds exactly the paths of the downloads
\* that did not raise, each once: N - k paths for N existing items of
\* which k raised.
C10_Download ==
    /\ dlpc # "raised"
    /\ Len(dlFutures) <= Len(file_exists)
    /\ \A i \in 1..Len(dlFutures) :
           /\ dlFutures[i].H = file_exists[i]
           /\ dlFutures[i].H \notin Range(file_not_exists)
    /\ dlpc = "returned" =>
           /\ Len(dlFutures) = Len(file_exists)
           /\ \A i \in 1..Len(dlFutures) : dlFutures[i].state = "done"
           /\ Len(outFiles) = Len(file_exists) - Cardinality(DlFailed)
           /\ Cardinality(Range(outFiles)) = Len(outFiles)
           /\ Range(outFiles) =
                  {PathOf(dlFutures[i].H) : i \in (1..Len(dlFutures)) \ DlFailed}

C10_Witness ==
    /\ dlpc = "returned"
    /\ Len(file_exists) = 3
    /\ Len(file_not_exists) = 1
    /\ DlFailed = {1}
    /\ Len(outFiles) = 2
    /\ outFiles[1] = PathOf(file_exists[3])
\* What holds of objects while construction runs: every item of objects
\* comes from a future that ran to completion without raising and that
\* as_completed has yielded, no future has two items, and construction has
\* returned only with every submitted task terminated.
CollectedOnlyWhenDone ==
    /\ \A k \in 1..Len(objects) :
           /\ objects[k].id \in collected
           /\ futures[objects[k].id].state = "done"
           /\ futures[objects[k].id].outcome # "failed"
    /\ \A i \in 1..Len(futures) :
           /\ Copies(objects, i) <= 1
           /\ (i \in collected /\ i \notin Failed) => Copies(objects, i) = 1
    /\ pc = "returned" =>
           /\ Len(futures) = NPairs
           /\ \A i \in 1..Len(futures) : futures[i].state = "done"

\* What a step may do to objects: a worker's step leaves it alone; it grows
\* only in the as_completed loop, by the item of a future that is done and
\* did not raise; the sort keeps its items and starts with every submitted
\* task terminated; after that nothing changes it.
AppendOnlyInLoop ==
    /\ futures' # futures => objects' = objects
    /\ objects' # objects =>
           /\ pc = "collect"
           /\ \/ /\ pc' = "collect"
                 /\ \E i \in collected' \ collected :
                        /\ futures[i].state = "done"
                        /\ futures[i].outcome # "failed"
                        /\ objects' = Append(objects, Item(futures, i))
              \/ /\ pc' = "returned"
                 /\ Len(objects') = Len(objects)
                 /\ Range(objects') = Range(objects)
    /\ (pc = "collect" /\ pc' = "returned") =>
           /\ Len(futures) = NPairs
           /\ \A i \in 1..Len(futures) : futures[i].state = "done"
    /\ pc = "returned" =>
           /\ objects' = objects
           /\ file_exists' = file_exists
           /\ file_not_exists' = file_not_exists

\* C15: during construction objects is appended to only in the collecting
\* loop and only for a task that completed without raising, once per task;
\* the sort and the partition start only after every submitted task has
\* terminated, and no item is appended once they have begun.
C15_CollectAfterCompletion ==
    []CollectedOnlyWhenDone /\ [][AppendOnlyInLoop]_vars

\* An item was appended while a task submitted before it is still running
\* and another one raised.
C15_Witness ==
    /\ pc = "collect"
    /\ Len(futures) = 4
    /\ collected = {2, 3}
    /\ Ids(objects) = {3}
    /\ futures[2].outcome = "failed"
    /\ futures[1].state = "running"

\* C16, as claimed: for every batch construction returns, the sequence
\* df() chunks (self.objects) has a length that is a multiple of the number
\* of leads, so that each chunk has as many cells as there are leads.
C16_MultipleOfLeads ==
    (ListArgs /\ pc = "returned") =>
        /\ Len(objects) % L = 0
        /\ \A r \in 1..Len(Chunks(objects, L)) : Len(Chunks(objects, L)[r]) = L

\* Herbie_latest has built its window and handed it to FastHerbie.
LatestRunning == latest.status \in {"running", "ok", "IndexError"}

\* C12, as claimed: Herbie_latest(n, freq) hands FastHerbie a window of
\* exactly n timestamps, consecutive ones freq apart, the last one the
\* current time floored to freq, with the single lead 0, so that exactly n
\* tasks are submitted.
C12_WindowOfN ==
    LatestRunning =>
        /\ Len(DATES.val) = latest.n
        /\ \A k \in 1..(Len(DATES.val) - 1) :
               DATES.val[k + 1] = DATES.val[k] + latest.freq
        /\ DATES.val[Len(DATES.val)] = Floor(latest.now, latest.freq)
        /\ fxx.val = <<0>>
        /\ pc = "returned" => Len(futures) = latest.n

\* C13: Herbie_latest ends with an item or with an error; it returns an
\* item exactly when some slot of the window resolved to a present file,
\* the item is the one of a present slot and no present slot has a later
\* date, whatever the order the tasks completed in; when no slot is present
\* (all absent or raised) it ends in the error of indexing an empty list
\* and returns no item.
C13_LatestExisting ==
    /\ latest.status = "ok" =>
           /\ Present # {}
           /\ Len(latest.H) = 1
           /\ latest.H[1].id \in Present
           /\ latest.H[1].date = futures[latest.H[1].id].date
           /\ latest.H[1].grib = "found"
           /\ \A i \in Present : futures[i].date <= latest.H[1].date
    /\ latest.status = "IndexError" =>
           /\ Present = {}
           /\ latest.H = <<>>
    /\ (pc = "returned" /\ latest.status = "running") => ENABLED HerbieLatestReturn

\* Of three slots only the middle one is present, the oldest is absent and
\* the newest raised; the middle one is returned.
C13_Witness ==
    /\ latest.status = "ok"
    /\ Len(futures) = 3
    /\ futures[1].outcome = "absent"
    /\ futures[2].outcome = "present"
    /\ futures[3].outcome = "failed"
    /\ latest.H[1].date = DATES.val[2]

\* No slot is present: Herbie_latest ends in the error.
C13_WitnessNone ==
    /\ latest.status = "IndexError"
    /\ Len(futures) = 3
    /\ Absent = {1, 3}
    /\ Failed = {2}

XrFailed == {i \in 1..Len(xrFutures) : xrFutures[i].outcome = "failed"}

\* C11, as claimed: an existing item whose open call raises does not make
\* xarray() raise, in the threaded and in the sequential mode; the call
\* goes on to merge what the other items yielded, the failed item left out.
C11_OpenFailureIsolated ==
    /\ xrOut.status # "raised"
    /\ (xrpc = "returned" /\ xr_max > 0) =>
           {ds_list[k].H.id : k \in 1..Len(ds_list)}
               = {xrFutures[i].H.id : i \in (1..Len(xrFutures)) \ XrFailed}

\* xarray() has got as far as reshaping: every open call returned.
XrReshaped == xrOut.status \in {"ok", "ValueError"}

\* The grids xarray() hands to combine_nested.
XrGrids == Hypercubes(ds_list, PyLen(self_fxx))

\* C17, as claimed (the alignment it states): in every grid xarray()
\* builds, the Datasets of a row have one time and the Datasets of a column
\* have one step, also when items of the batch are missing.
C17_GridAligned ==
    XrReshaped =>
        \A c \in 1..Len(XrGrids) :
            LET grid == XrGrids[c].grid
            IN  \A r \in 1..Len(grid) :
                    \A k \in 1..Len(grid[r]) :
                        /\ grid[r][k].time = grid[r][1].time
                        /\ \A q \in 1..Len(grid) :
                               k <= Len(grid[q]) => grid[q][k].step = grid[r][k].step

\* C18, as claimed: once every open call has returned, xarray() returns
\* one merged object per key that occurs among the Datasets yielded, each
\* key once, and every Dataset yielded is in the grid of its own key and in
\* no other.
C18_OneCubePerKey ==
    XrReshaped =>
        LET flat == Flatten(ds_list)
            cubes == xrOut.cubes
            Cells(c) == UNION {Range(cubes[c].grid[r]) : r \in 1..Len(cubes[c].grid)}
        IN  /\ xrOut.status = "ok"
            /\ {cubes[c].key : c \in 1..Len(cubes)} = {flat[k].key : k \in 1..Len(flat)}
            /\ \A c, e \in 1..Len(cubes) : cubes[c].key = cubes[e].key => c = e
            /\ \A k \in 1..Len(flat) : \A c \in 1..Len(cubes) :
                   (flat[k] \in Cells(c)) <=> (cubes[c].key = flat[k].key)

\* C14: while construction, download() or the threaded xarray() runs, the
\* number of its tasks that execute at once is at most the smaller of the
\* batch's task count (dates times leads) and the max_threads that
\* operation was called with, each operation being held to its own
\* max_threads.
C14_WorkerCeiling ==
    /\ pc \in {"submit", "collect", "returned"} =>
           /\ tasks = D * L
           /\ Cardinality(Running(futures)) <= Min(tasks, max_threads)
    /\ Cardinality(Running(dlFutures)) <= Min(tasks, dl_max)
    /\ Cardinality(Running(xrFutures)) <= Min(tasks, xr_max)

\* xarray(max_threads=2) on a batch built with max_threads=1: two open
\* calls run at once and a third waits.
C14_Witness ==
    /\ max_threads = 1
    /\ xr_max = 2
    /\ Len(xrFutures) = 3
    /\ Cardinality(Running(xrFutures)) = 2
    /\ Cardinality(Pending(xrFutures)) = 1

\* download(max_threads=2) on a batch built with max_threads=1: two
\* downloads run at once and a third waits.
C14_WitnessDownload ==
    /\ max_threads = 1
    /\ dl_max = 2
    /\ Len(dlFutures) = 3
    /\ Cardinality(Running(dlFutures)) = 2
    /\ Cardinality(Pending(dlFutures)) = 1

\* What a step leaves of the batch.
BatchUnchanged ==
    UNCHANGED <<objects, file_exists, file_not_exists, self_DATES, self_fxx, tasks>>

\* C19: once construction has returned, no step of df(), inventory(),
\* download() or xarray(), whether the call succeeds or fails, changes
\* objects, file_exists, file_not_exists, DATES, fxx or tasks.
C19_BatchImmutable == [][pc = "returned" => BatchUnchanged]_vars

\* xarray() has ended in the ValueError of combine_nested on a batch of
\* three existing items and a missing one.
C19_Witness ==
    /\ pc = "returned"
    /\ Len(file_exists) = 3
    /\ Len(file_not_exists) = 1
    /\ xrOut.status = "ValueError"

\* C20: when every task terminates and the steps are scheduled fairly,
\* construction returns once its pool is made and a download() call that
\* was made returns, with every task that was submitted run to its end,
\* also when there are more tasks than workers.
C20_Returns ==
    /\ (pc = "submit")
           ~> (pc = "returned" /\ \A i \in 1..Len(futures) : futures[i].state = "done")
    /\ (dlpc \in {"submit", "collect"})
           ~> (dlpc = "returned" /\ \A i \in 1..Len(dlFutures) : dlFutures[i].state = "done")

\* Construction of four tasks on one worker and a download of three files
\* on one worker have both returned.
C20_Witness ==
    /\ pc = "returned"
    /\ threads = 1
    /\ Len(futures) = 4
    /\ dlpc = "returned"
    /\ dl_threads = 1
    /\ Len(dlFutures) = 3
====
